---- MODULE Spec2Model ----
(***************************************************************************)
(* Agent-builder prototypes of the repository: Node.py (session graph      *)
(* `agent_flow` with demo add/save/load/clear) and 1Node.py (Fabric.js     *)
(* canvas, node properties editor and JSON export).  One Streamlit session *)
(* runs one of the two scripts; `app` records which.                       *)
(***************************************************************************)
EXTENDS Integers, Sequences, FiniteSets, TLC

\* ------------------------------------------------------------- bounds
\* ids drawn per session (uuid.uuid4() in Node.py, nodeId in 1Node.py)
MaxIds == 3
\* entries the execution log may hold
MaxLog == 3
\* nodes one graph may hold
MaxNodes == 3
\* connections drawn on the canvas per session
MaxStamps == 1

\* ------------------------------------------------------------- inputs
\* names typed into "Agent Name" (Node.py:161, default "MyAgent")
AgentNames == {"MyAgent", "Other"}
\* pointer positions / random demo positions
Points == {<<10, 10>>}

\* ------------------------------------------------------------- values
\* Python None / JavaScript null where a node id is expected
NoNode == 0

VARIABLES
    app,              \* which script the session runs
    \* ---- Node.py session state
    heap,             \* AgentFlow objects by identity
    agent_flow,       \* st.session_state.agent_flow (a reference)
    saved_agents,     \* st.session_state.saved_agents: name -> reference
    execution_log,    \* st.session_state.execution_log
    total_runs,       \* st.session_state.execution_stats['total_runs']
    uuids,            \* uuid4 values drawn so far
    sidebar_log,      \* entries the sidebar's "Execution Log" shows
    history_log,      \* entries "Last 10 log entries" of the history tab shows
    \* ---- session state of both scripts
    canvas_data,      \* st.session_state.canvas_data
    feedback,         \* what the last handler surfaced to the user
    \* ---- 1Node.py session state
    selected_node,    \* st.session_state.selected_node
    show_json,        \* st.session_state.show_json
    agent_config,     \* the document the running script built (<<>>: none)
    pc,               \* position of the 1Node.py script run
    \* ---- 1Node.py canvas frame (JavaScript)
    frame_src,        \* canvas state baked into the html the frame shows
    canvasState,
    groups,           \* node groups on the Fabric canvas
    selectedNodeId,
    connectionMode,
    connectionStart,
    nodeIds,          \* node ids drawn so far
    stamps            \* Date.now() values read for connection ids so far

vars == <<app, heap, agent_flow, saved_agents, execution_log, total_runs, uuids,
          sidebar_log, history_log, canvas_data, feedback, selected_node, show_json, agent_config, pc,
          frame_src, canvasState, groups, selectedNodeId, connectionMode,
          connectionStart, nodeIds, stamps>>

nodeVars == <<heap, agent_flow, saved_agents, execution_log, total_runs, uuids,
              sidebar_log, history_log>>
pyVars == <<selected_node, show_json, agent_config, pc>>
jsVars == <<frame_src, canvasState, groups, selectedNodeId, connectionMode,
            connectionStart, nodeIds, stamps>>

\* ------------------------------------------------------------- helpers
EmptyCanvas == [nodes |-> <<>>, connections |-> <<>>]

\* AgentFlow([], [], {})
EmptyFlow == [nodes |-> <<>>, connections |-> <<>>, metadata |-> <<>>]

ObjIds == 1..(Cardinality(AgentNames) + 2)

\* objects the session still references
Referenced(af, saved) == {af} \cup {saved[n] : n \in DOMAIN saved}

\* unreferenced AgentFlow objects are collected
Collect(h, af, saved) ==
    [o \in ObjIds |-> IF o \in Referenced(af, saved) THEN h[o] ELSE EmptyFlow]

NewObj(af, saved) ==
    CHOOSE o \in ObjIds \ Referenced(af, saved) :
        \A p \in ObjIds \ Referenced(af, saved) : o <= p

\* an id generator that can return an id it returned before
ReusedId(drawn) == 1

\* str(uuid.uuid4()) / 'node_' + Date.now() + '_' + Math.random()...:
\* an id not drawn before; the k-th id drawn is named k
FreshId(drawn) == drawn + 1

\* f"Input_{new_id[:4]}" / type + '_' + nodeId.slice(-4)
DefaultName(type, id) == <<type, id>>

IdSet(nodes) == {nodes[i].id : i \in 1..Len(nodes)}

Max2(a, b) == IF a >= b THEN a ELSE b
Min2(a, b) == IF a <= b THEN a ELSE b

\* ------------------------------------------------------------- Node.py
NodeConfig(id, type, name, x, y) ==
    [id |-> id, type |-> type, name |-> name, x |-> x, y |-> y,
     properties |-> <<>>]

Responses == {"The capital of France is Paris.",
              "Paris is the capital city of France.",
              "France's capital is Paris."}

Flow == heap[agent_flow]

\* entries a log display shows at most: execution_log[-10:]
LogShown == 10

\* reversed(seq)
Reversed(seq) == [i \in 1..Len(seq) |-> seq[Len(seq) - i + 1]]

\* reversed(st.session_state.execution_log[-10:]), as both displays loop over it
ShownLog(log) ==
    Reversed(SubSeq(log, Max2(1, Len(log) - LogShown + 1), Len(log)))

\* a "Clear" button that resets canvas_data only
ClearCanvasDataOnly ==
    /\ app = "Node.py"
    /\ canvas_data' = EmptyCanvas
    /\ feedback' = ""
    /\ UNCHANGED <<app, nodeVars, pyVars, jsVars>>

\* "Clear" button
Clear ==
    /\ app = "Node.py"
    /\ canvas_data' = EmptyCanvas
    /\ LET o == NewObj(agent_flow, saved_agents)
       IN /\ agent_flow' = o
          /\ heap' = Collect([heap EXCEPT ![o] = EmptyFlow], o, saved_agents)
    /\ feedback' = ""
    /\ sidebar_log' = ShownLog(execution_log)
    /\ history_log' = ShownLog(execution_log)
    /\ UNCHANGED <<app, saved_agents, execution_log, total_runs, uuids>>
    /\ UNCHANGED <<pyVars, jsVars>>

\* "Save" button
Save(agent_name) ==
    /\ app = "Node.py"
    /\ saved_agents' = [n \in DOMAIN saved_agents \cup {agent_name} |->
                           IF n = agent_name THEN agent_flow ELSE saved_agents[n]]
    /\ heap' = Collect(heap, agent_flow, saved_agents')
    /\ feedback' = "Agent saved!"
    /\ sidebar_log' = ShownLog(execution_log)
    /\ history_log' = ShownLog(execution_log)
    /\ UNCHANGED <<app, agent_flow, execution_log, total_runs, uuids, canvas_data>>
    /\ UNCHANGED <<pyVars, jsVars>>

\* "Load Agent" button
LoadAgent(selected_agent) ==
    /\ app = "Node.py"
    /\ selected_agent \in DOMAIN saved_agents
    /\ agent_flow' = saved_agents[selected_agent]
    /\ heap' = Collect(heap, agent_flow', saved_agents)
    /\ feedback' = "Loaded agent!"
    /\ sidebar_log' = ShownLog(execution_log)
    /\ history_log' = ShownLog(execution_log)
    /\ UNCHANGED <<app, saved_agents, execution_log, total_runs, uuids, canvas_data>>
    /\ UNCHANGED <<pyVars, jsVars>>

\* "Simulate Run" button
SimulateRun(simulated_response) ==
    /\ app = "Node.py"
    /\ Len(execution_log) < MaxLog
    /\ total_runs' = total_runs + 1
    /\ execution_log' = Append(execution_log,
                               [kind |-> "run", text |-> <<simulated_response>>])
    /\ feedback' = simulated_response
    /\ sidebar_log' = ShownLog(execution_log)
    /\ history_log' = ShownLog(execution_log')
    /\ UNCHANGED <<app, heap, agent_flow, saved_agents, uuids, canvas_data>>
    /\ UNCHANGED <<pyVars, jsVars>>

\* an "Add Demo Node" button that inserts the node in front
AddDemoNodeInFront(x, y) ==
    /\ app = "Node.py"
    /\ uuids < MaxIds
    /\ Len(Flow.nodes) < MaxNodes
    /\ Len(execution_log) < MaxLog
    /\ LET new_id == FreshId(uuids)
           demo_node == NodeConfig(new_id, "Input", DefaultName("Input", new_id), x, y)
       IN /\ heap' = [heap EXCEPT ![agent_flow].nodes = <<demo_node>> \o @]
          /\ execution_log' = Append(execution_log,
                                     [kind |-> "node", text |-> demo_node.name])
    /\ uuids' = uuids + 1
    /\ feedback' = ""
    /\ sidebar_log' = ShownLog(execution_log')
    /\ history_log' = ShownLog(execution_log')
    /\ UNCHANGED <<app, agent_flow, saved_agents, total_runs, canvas_data>>
    /\ UNCHANGED <<pyVars, jsVars>>

\* "Add Demo Node" button
AddDemoNode(x, y) ==
    /\ app = "Node.py"
    /\ uuids < MaxIds
    /\ Len(Flow.nodes) < MaxNodes
    /\ Len(execution_log) < MaxLog
    /\ LET new_id == FreshId(uuids)
           demo_node == NodeConfig(new_id, "Input", DefaultName("Input", new_id), x, y)
       IN /\ heap' = [heap EXCEPT ![agent_flow].nodes = Append(@, demo_node)]
          /\ execution_log' = Append(execution_log,
                                     [kind |-> "node", text |-> demo_node.name])
    /\ uuids' = uuids + 1
    /\ feedback' = ""
    /\ sidebar_log' = ShownLog(execution_log')
    /\ history_log' = ShownLog(execution_log')
    /\ UNCHANGED <<app, agent_flow, saved_agents, total_runs, canvas_data>>
    /\ UNCHANGED <<pyVars, jsVars>>

\* "Add Demo Connection" button that connects whatever the graph holds
AddDemoConnectionUnguarded ==
    /\ app = "Node.py"
    /\ uuids < MaxIds
    /\ LET nodes == Flow.nodes
           c == [id |-> FreshId(uuids),
                 from_node |-> IF nodes = <<>> THEN NoNode ELSE nodes[1].id,
                 to_node |-> IF nodes = <<>> THEN NoNode ELSE nodes[Len(nodes)].id,
                 from_port |-> "output", to_port |-> "input"]
       IN heap' = [heap EXCEPT ![agent_flow].connections = Append(@, c)]
    /\ uuids' = uuids + 1
    /\ feedback' = ""
    /\ sidebar_log' = ShownLog(execution_log)
    /\ history_log' = ShownLog(execution_log)
    /\ UNCHANGED <<app, agent_flow, saved_agents, execution_log, total_runs,
                   canvas_data>>
    /\ UNCHANGED <<pyVars, jsVars>>

\* "Add Demo Connection" button.  With two or more nodes conn_id is drawn and
\* then `agent_flow.nodes.id` is evaluated on a list: AttributeError, before
\* any Connection is built or appended.
AddDemoConnection ==
    /\ app = "Node.py"
    /\ IF Len(Flow.nodes) >= 2
       THEN /\ uuids < MaxIds
            /\ uuids' = uuids + 1
            /\ feedback' = "AttributeError"
       ELSE /\ uuids' = uuids
            /\ feedback' = "Add at least 2 nodes first."
    /\ sidebar_log' = ShownLog(execution_log)
    /\ history_log' = ShownLog(execution_log)
    /\ UNCHANGED <<app, heap, agent_flow, saved_agents, execution_log, total_runs,
                   canvas_data>>
    /\ UNCHANGED <<pyVars, jsVars>>

NextNode ==
    \/ Clear
    \/ \E agent_name \in AgentNames : Save(agent_name)
    \/ \E selected_agent \in AgentNames : LoadAgent(selected_agent)
    \/ \E r \in Responses : SimulateRun(r)
    \/ \E p \in Points : AddDemoNode(p[1], p[2])
    \/ AddDemoConnection

\* initialize_session_state() / the first script run
Init ==
    /\ app \in {"Node.py", "1Node.py"}
    /\ heap = [o \in ObjIds |-> EmptyFlow]
    /\ agent_flow = 1
    /\ saved_agents = <<>>
    /\ execution_log = <<>>
    /\ total_runs = 0
    /\ uuids = 0
    /\ sidebar_log = <<>>
    /\ history_log = <<>>
    /\ canvas_data = EmptyCanvas
    /\ feedback = ""
    /\ selected_node = NoNode
    /\ show_json = FALSE
    /\ agent_config = <<>>
    /\ pc = "idle"
    /\ frame_src = EmptyCanvas
    /\ canvasState = EmptyCanvas
    /\ groups = {}
    /\ selectedNodeId = NoNode
    /\ connectionMode = FALSE
    /\ connectionStart = NoNode
    /\ nodeIds = 0
    /\ stamps = 0

\* ------------------------------------------------------------- 1Node.py
\* the component library
components == {"Input", "LLM", "Tool", "Memory", "Router", "Output"}

\* texts the user types into prompt('Enter component type ...')
TypedTypes == {"Input", "LLM", "Prompt"}

\* texts the user types into "Node Name"
TypedNames == {<<"q">>}

\* options of the "Model" selectbox
Models == <<"gpt-3.5-turbo", "gpt-4", "claude-3-sonnet", "llama-2">>

\* options the user picks in the "Model" selectbox
PickedModels == {2}

\* options of the "Tool Type" selectbox
ToolTypes == <<"web_search", "calculator", "file_reader", "api_call">>

\* options of the "Memory Type" selectbox
MemoryTypes == <<"conversation_buffer", "conversation_summary", "vector_store">>

\* temperatures are counted in tenths: the slider runs from 0.0 to 1.0
SliderMin == 0
SliderMax == 10
\* where the user drags the slider handle, in tenths (15 is 1.5)
SliderDrags == {3, 15}

\* a slider that hands on the position it was dragged to
SliderUnclamped(min_value, max_value, drag) == drag

\* st.sidebar.slider(label, min_value, max_value, value): the value the widget
\* returns lies between min_value and max_value wherever the handle is dragged
Slider(min_value, max_value, drag) == Max2(min_value, Min2(max_value, drag))

\* node[key] = val on a dict
Put(node, key, val) ==
    [k \in DOMAIN node \cup {key} |-> IF k = key THEN val ELSE node[k]]

\* str.lower() on the component names
Lower(type) ==
    CASE type = "Input" -> "input"
      [] type = "LLM" -> "llm"
      [] type = "Tool" -> "tool"
      [] type = "Memory" -> "memory"
      [] type = "Router" -> "router"
      [] type = "Output" -> "output"
      [] OTHER -> type

ConfigKeys == {"model", "temperature", "tool_type"}

\* one entry of agent_config["nodes"]
ConfigEntry(node) ==
    [type |-> Lower(node.type),
     name |-> IF "name" \in DOMAIN node THEN node.name ELSE node.type,
     position |-> [x |-> node.x, y |-> node.y],
     config |-> [k \in ConfigKeys \cap DOMAIN node |-> node[k]]]

\* a dict keeps the last value assigned to a key
LastIndex(nodes, id) ==
    CHOOSE i \in 1..Len(nodes) :
        /\ nodes[i].id = id
        /\ \A j \in (i + 1)..Len(nodes) : nodes[j].id # id

\* the JSON export section: agent_config built from canvas_data
ToConfig(cd) ==
    [agent_type |-> "custom_visual_agent",
     created_at |-> "2024-01-01T00:00:00Z",
     nodes |-> [id \in IdSet(cd.nodes) |-> ConfigEntry(cd.nodes[LastIndex(cd.nodes, id)])],
     flow |-> [i \in 1..Len(cd.connections) |->
                  [from |-> cd.connections[i].from,
                   to |-> cd.connections[i].to,
                   condition |-> "default"]]]

\* the parent window's 'message' listener, as its comments describe it:
\* canvas_updated updates session state with the canvas data
OnCanvasUpdated(data) == data

\* node_selected updates session state with the selected node
OnNodeSelected(nodeId) == nodeId

\* the bounds leave room for the nodes renderExistingState adds
RoomToRender ==
    /\ 2 * Len(canvas_data.nodes) <= MaxNodes
    /\ nodeIds + Len(canvas_data.nodes) <= MaxIds

\* "Clear Canvas" button, then st.rerun()
ClearCanvas ==
    /\ app = "1Node.py" /\ pc = "idle"
    /\ canvas_data' = EmptyCanvas
    /\ pc' = "editor"
    /\ feedback' = ""
    /\ UNCHANGED <<app, nodeVars, selected_node, show_json, agent_config, jsVars>>

\* "Export JSON" button; the run goes on
ExportJSON ==
    /\ app = "1Node.py" /\ pc = "idle"
    /\ show_json' = TRUE
    /\ pc' = "editor"
    /\ feedback' = ""
    /\ UNCHANGED <<app, nodeVars, canvas_data, selected_node, agent_config, jsVars>>

\* "Hide JSON" button, then st.rerun()
HideJSON ==
    /\ app = "1Node.py" /\ pc = "idle"
    /\ show_json
    /\ show_json' = FALSE
    /\ pc' = "editor"
    /\ feedback' = ""
    /\ UNCHANGED <<app, nodeVars, canvas_data, selected_node, agent_config, jsVars>>

\* the user changes a widget of the properties editor: a script run
ChangeWidget ==
    /\ app = "1Node.py" /\ pc = "idle"
    /\ selected_node # NoNode
    /\ selected_node \in IdSet(canvas_data.nodes)
    /\ pc' = "editor"
    /\ feedback' = ""
    /\ UNCHANGED <<app, nodeVars, canvas_data, selected_node, show_json,
                   agent_config, jsVars>>

\* the first node of canvas_data with the selected id
FindSelected(nodes, id) ==
    IF id # NoNode /\ id \in IdSet(nodes)
    THEN CHOOSE i \in 1..Len(nodes) :
             nodes[i].id = id /\ \A j \in 1..(i - 1) : nodes[j].id # id
    ELSE 0

\* type-specific properties of the editor, written into the selected node
TypeProperties(node, model, temperature, tool_type) ==
    IF node.type = "LLM"
    THEN Put(Put(node, "model", Models[model]), "temperature", temperature)
    ELSE IF node.type = "Tool"
    THEN Put(Put(node, "tool_type", ToolTypes[tool_type]), "parameters", "{}")
    ELSE IF node.type = "Memory"
    THEN Put(node, "memory_type", MemoryTypes[1])
    ELSE IF node.type = "Router"
    THEN Put(node, "routing_logic", "Define routing conditions...")
    ELSE node

\* an editor that also lets the user pick the node's type
EditedNodeRetyped(node, name, model, temperature, tool_type) ==
    TypeProperties(Put(Put(node, "name", name), "type", "LLM"),
                   model, temperature, tool_type)

\* the selected node after the editor ran
EditedNode(node, name, model, temperature, tool_type) ==
    TypeProperties(Put(node, "name", name), model, temperature, tool_type)

\* Node properties editor
NodePropertiesEditor ==
    /\ app = "1Node.py" /\ pc = "editor"
    /\ LET i == FindSelected(canvas_data.nodes, selected_node)
       IN IF i = 0
          THEN canvas_data' = canvas_data
          ELSE \E name \in TypedNames \cup {canvas_data.nodes[i].name},
                  model \in PickedModels, drag \in SliderDrags :
                   canvas_data' =
                       [canvas_data EXCEPT !.nodes[i] =
                           EditedNode(@, name, model,
                                      Slider(SliderMin, SliderMax, drag), 1)]
    /\ pc' = "export"
    /\ UNCHANGED <<app, nodeVars, feedback, selected_node, show_json,
                   agent_config, jsVars>>

\* an export that drops the connections it has written out
JSONExportDraining ==
    /\ app = "1Node.py" /\ pc = "export"
    /\ agent_config' = IF show_json THEN ToConfig(canvas_data) ELSE <<>>
    /\ canvas_data' = IF show_json THEN [canvas_data EXCEPT !.connections = <<>>]
                                   ELSE canvas_data
    /\ pc' = "frame"
    /\ UNCHANGED <<app, nodeVars, feedback, selected_node, show_json, jsVars>>

\* JSON Export section
JSONExport ==
    /\ app = "1Node.py" /\ pc = "export"
    /\ agent_config' = IF show_json THEN ToConfig(canvas_data) ELSE <<>>
    /\ pc' = "frame"
    /\ UNCHANGED <<app, nodeVars, canvas_data, feedback, selected_node, show_json,
                   jsVars>>

\* the node createNode pushes to canvasState.nodes
NewNode(nodeId, type, x, y) ==
    [id |-> nodeId, type |-> type, x |-> x, y |-> y,
     name |-> DefaultName(type, nodeId)]

\* the group createNode adds to the canvas
NewGroup(nodeId, type) == [nodeId |-> nodeId, nodeType |-> type]

\* renderExistingState(): createNode(node.type, node.x, node.y) for each node
\* canvasState held when forEach began; the k-th call draws the id after the
\* k-1 ids drawn before it
RenderedNodes(nodes, drawn) ==
    [k \in 1..Len(nodes) |->
        NewNode(FreshId(drawn + k - 1), nodes[k].type, nodes[k].x, nodes[k].y)]

\* the frame's script, run when the html the frame shows has changed
CanvasFrame ==
    /\ app = "1Node.py" /\ pc = "frame"
    /\ pc' = "idle"
    /\ agent_config' = <<>>
    /\ IF canvas_data = frame_src
       THEN UNCHANGED <<canvas_data, jsVars>>
       ELSE LET old == canvas_data.nodes
                new == RenderedNodes(old, nodeIds)
            IN /\ RoomToRender
               /\ frame_src' = canvas_data
               /\ selectedNodeId' = NoNode
               /\ connectionMode' = FALSE
               /\ connectionStart' = NoNode
               /\ canvasState' = [nodes |-> old \o new,
                                  connections |-> canvas_data.connections]
               /\ groups' = {NewGroup(new[k].id, new[k].type) : k \in 1..Len(new)}
               /\ nodeIds' = nodeIds + Len(old)
               /\ stamps' = stamps
               /\ canvas_data' = IF old = <<>> THEN canvas_data
                                 ELSE OnCanvasUpdated(canvasState')
    /\ UNCHANGED <<app, nodeVars, feedback, selected_node, show_json>>

\* canvas 'mouse:dblclick': prompt for a type, createNode(type, x, y)
DblClick(type, x, y) ==
    /\ app = "1Node.py" /\ pc = "idle"
    /\ feedback' = ""
    /\ IF ~connectionMode /\ type \in components
       THEN /\ nodeIds < MaxIds
            /\ Len(canvasState.nodes) < MaxNodes
            /\ LET nodeId == FreshId(nodeIds)
               IN /\ groups' = groups \cup {NewGroup(nodeId, type)}
                  /\ canvasState' = [canvasState EXCEPT
                                        !.nodes = Append(@, NewNode(nodeId, type, x, y))]
            /\ nodeIds' = nodeIds + 1
            /\ canvas_data' = OnCanvasUpdated(canvasState')
       ELSE UNCHANGED <<groups, canvasState, nodeIds, canvas_data>>
    /\ UNCHANGED <<app, nodeVars, pyVars, frame_src, selectedNodeId, connectionMode,
                   connectionStart, stamps>>

\* a connection that reads the target's id from a field the group lacks
NewConnectionNoTarget(startId, endId, t) ==
    [from |-> startId, to |-> NoNode, id |-> <<"conn", t>>]

\* the connection createConnection pushes to canvasState.connections
NewConnection(startId, endId, t) ==
    [from |-> startId, to |-> endId, id |-> <<"conn", t>>]

\* Date.now() read by createConnection: connections are drawn by separate
\* user gestures, milliseconds apart, so successive reads differ; the k-th
\* value read is named k
DateNow(read) == read + 1

\* a 'mousedown' listener without the connectionStart !== group test
MouseDownAnyTarget(group) ==
    /\ app = "1Node.py" /\ pc = "idle"
    /\ group \in groups
    /\ feedback' = ""
    /\ IF connectionMode
       THEN IF connectionStart = NoNode
            THEN /\ connectionStart' = group.nodeId
                 /\ UNCHANGED <<canvasState, canvas_data, connectionMode, stamps,
                                selectedNodeId, selected_node>>
            ELSE IF TRUE
            THEN /\ stamps < MaxStamps
                 /\ stamps' = stamps + 1
                 /\ canvasState' =
                        [canvasState EXCEPT !.connections =
                            Append(@, NewConnection(connectionStart, group.nodeId,
                                                    DateNow(stamps)))]
                 /\ canvas_data' = OnCanvasUpdated(canvasState')
                 /\ connectionStart' = NoNode
                 /\ connectionMode' = FALSE
                 /\ UNCHANGED <<selectedNodeId, selected_node>>
            ELSE UNCHANGED <<canvasState, canvas_data, connectionMode,
                             connectionStart, stamps, selectedNodeId, selected_node>>
       ELSE /\ selectedNodeId' = group.nodeId
            /\ selected_node' = OnNodeSelected(group.nodeId)
            /\ UNCHANGED <<canvasState, canvas_data, connectionMode,
                           connectionStart, stamps>>
    /\ UNCHANGED <<app, nodeVars, show_json, agent_config, pc, frame_src, groups,
                   nodeIds>>

\* a 'mousedown' listener that leaves connection mode on after connecting
MouseDownStaysInMode(group) ==
    /\ app = "1Node.py" /\ pc = "idle"
    /\ group \in groups
    /\ feedback' = ""
    /\ IF connectionMode
       THEN IF connectionStart = NoNode
            THEN /\ connectionStart' = group.nodeId
                 /\ UNCHANGED <<canvasState, canvas_data, connectionMode, stamps,
                                selectedNodeId, selected_node>>
            ELSE IF connectionStart # group.nodeId
            THEN /\ stamps < MaxStamps
                 /\ stamps' = stamps + 1
                 /\ canvasState' =
                        [canvasState EXCEPT !.connections =
                            Append(@, NewConnection(connectionStart, group.nodeId,
                                                    DateNow(stamps)))]
                 /\ canvas_data' = OnCanvasUpdated(canvasState')
                 /\ connectionStart' = NoNode
                 /\ connectionMode' = connectionMode
                 /\ UNCHANGED <<selectedNodeId, selected_node>>
            ELSE UNCHANGED <<canvasState, canvas_data, connectionMode,
                             connectionStart, stamps, selectedNodeId, selected_node>>
       ELSE /\ selectedNodeId' = group.nodeId
            /\ selected_node' = OnNodeSelected(group.nodeId)
            /\ UNCHANGED <<canvasState, canvas_data, connectionMode,
                           connectionStart, stamps>>
    /\ UNCHANGED <<app, nodeVars, show_json, agent_config, pc, frame_src, groups,
                   nodeIds>>

\* group.on('mousedown'): pick the start node, createConnection to a second
\* node, or select the node
MouseDown(group) ==
    /\ app = "1Node.py" /\ pc = "idle"
    /\ group \in groups
    /\ feedback' = ""
    /\ IF connectionMode
       THEN IF connectionStart = NoNode
            THEN /\ connectionStart' = group.nodeId
                 /\ UNCHANGED <<canvasState, canvas_data, connectionMode, stamps,
                                selectedNodeId, selected_node>>
            ELSE IF connectionStart # group.nodeId
            THEN /\ stamps < MaxStamps
                 /\ stamps' = stamps + 1
                 /\ canvasState' =
                        [canvasState EXCEPT !.connections =
                            Append(@, NewConnection(connectionStart, group.nodeId,
                                                    DateNow(stamps)))]
                 /\ canvas_data' = OnCanvasUpdated(canvasState')
                 /\ connectionStart' = NoNode
                 /\ connectionMode' = FALSE
                 /\ UNCHANGED <<selectedNodeId, selected_node>>
            ELSE UNCHANGED <<canvasState, canvas_data, connectionMode,
                             connectionStart, stamps, selectedNodeId, selected_node>>
       ELSE /\ selectedNodeId' = group.nodeId
            /\ selected_node' = OnNodeSelected(group.nodeId)
            /\ UNCHANGED <<canvasState, canvas_data, connectionMode,
                           connectionStart, stamps>>
    /\ UNCHANGED <<app, nodeVars, show_json, agent_config, pc, frame_src, groups,
                   nodeIds>>

Keys == {"c", "C", "x"}

\* document 'keydown': 'c' toggles connection mode
KeyDown(key) ==
    /\ app = "1Node.py" /\ pc = "idle"
    /\ feedback' = ""
    /\ connectionMode' = IF key \in {"c", "C"} THEN ~connectionMode ELSE connectionMode
    /\ UNCHANGED <<app, nodeVars, pyVars, canvas_data, frame_src, canvasState, groups,
                   selectedNodeId, connectionStart, nodeIds, stamps>>

Next1Node ==
    \/ ClearCanvas
    \/ ExportJSON
    \/ HideJSON
    \/ ChangeWidget
    \/ NodePropertiesEditor
    \/ JSONExport
    \/ CanvasFrame
    \/ \E type \in TypedTypes, p \in Points : DblClick(type, p[1], p[2])
    \/ \E group \in groups : MouseDown(group)
    \/ \E key \in Keys : KeyDown(key)

Next == NextNode \/ Next1Node

Spec == Init /\ [][Next]_vars

\* ------------------------------------------------------------- properties
\* every node sequence the session holds
Graphs == {heap[o].nodes : o \in ObjIds} \cup {canvas_data.nodes, canvasState.nodes}

\* C1: no two nodes of a graph's node sequence have the same id, whatever
\* operations have run: each node created got an id no node of the graph had
C1_UniqueNodeIds ==
    \A nodes \in Graphs :
        \A i, j \in 1..Len(nodes) : i # j => nodes[i].id # nodes[j].id

\* two nodes were added by double-click and both are drawn on the canvas
C1_Witness ==
    /\ Len(canvasState.nodes) >= 2
    /\ \A i \in 1..Len(canvasState.nodes) :
           \E g \in groups : g.nodeId = canvasState.nodes[i].id

\* "Add Demo Connection" pressed on the empty graph: there is no first and no
\* last node for the connection to name
RejectedConnection == AddDemoConnection /\ Flow.nodes = <<>>

FlowsUnchanged ==
    /\ heap' = heap
    /\ agent_flow' = agent_flow
    /\ saved_agents' = saved_agents
    /\ canvas_data' = canvas_data

NoSelfLoop ==
    /\ \A o \in ObjIds : \A i \in 1..Len(heap[o].connections) :
           heap[o].connections[i].from_node # heap[o].connections[i].to_node
    /\ \A cd \in {canvas_data, canvasState} : \A i \in 1..Len(cd.connections) :
           cd.connections[i].from # cd.connections[i].to

\* a click on the pending start node while connection mode is on
SelfClick ==
    \E group \in groups :
        MouseDown(group) /\ connectionMode /\ connectionStart = group.nodeId

\* "Add Demo Connection" pressed on a graph of one node: its first node is
\* its last node
DemoSelfConnection == AddDemoConnection /\ Len(Flow.nodes) = 1

ConnectionsUnchanged ==
    /\ canvasState' = canvasState
    /\ canvas_data' = canvas_data
    /\ heap' = heap

FullConfiguration == Flow

Clamp01(v) == IF v < 0 THEN 0 ELSE IF v > 10 THEN 10 ELSE v

C7_ClearEmpties ==
    /\ [](app = "Node.py" => ENABLED Clear)
    /\ []((app = "1Node.py" /\ pc = "idle") => ENABLED ClearCanvas)
    /\ [][Clear => (/\ heap'[agent_flow'].nodes = <<>>
                    /\ heap'[agent_flow'].connections = <<>>
                    /\ canvas_data' = EmptyCanvas)]_vars
    /\ [][ClearCanvas => (/\ canvas_data'.nodes = <<>>
                          /\ canvas_data'.connections = <<>>
                          /\ DOMAIN ToConfig(canvas_data').nodes = {}
                          /\ Len(ToConfig(canvas_data').flow) = 0)]_vars

\* "Clear" has emptied a graph that held a node: the log records a node that
\* neither the active graph nor any saved graph holds
C7_Witness ==
    /\ app = "Node.py"
    /\ \E i \in 1..Len(execution_log) : execution_log[i].kind = "node"
    /\ \A o \in ObjIds : heap[o] = EmptyFlow

\* C8 as claimed: the graph stored under a name is a snapshot; adding a node
\* to the active graph does not change it
C8_SavedGraphIsSnapshot ==
    [][(\E p \in Points : AddDemoNode(p[1], p[2])) =>
          \A n \in DOMAIN saved_agents :
              /\ n \in DOMAIN saved_agents'
              /\ heap'[saved_agents'[n]] = heap[saved_agents[n]]]_vars

\* every node record the session holds
AllNodes == UNION {{nodes[i] : i \in 1..Len(nodes)} : nodes \in Graphs}

Ids(nodes) == [i \in 1..Len(nodes) |-> nodes[i].id]

IsPrefix(s, t) == Len(s) <= Len(t) /\ SubSeq(t, 1, Len(s)) = s

\* what the editor never writes: id, type and position
Fixed(node) == <<node.id, node.type, node.x, node.y>>

Appended(before, after) ==
    /\ IsPrefix(Ids(before.nodes), Ids(after.nodes))
    /\ \A i \in 1..Len(before.nodes) : Fixed(before.nodes[i]) = Fixed(after.nodes[i])
    /\ IsPrefix(before.connections, after.connections)

\* a step of clear or load (the frame rebuilt from a cleared session is the
\* end of "Clear Canvas")
ClearOrLoad ==
    \/ Clear
    \/ \E n \in AgentNames : LoadAgent(n)
    \/ ClearCanvas
    \/ pc = "frame" /\ canvas_data = EmptyCanvas

LastEntries(log) ==
    [i \in 1..Min2(10, Len(log)) |-> log[Len(log) - i + 1]]

\* C11 as claimed: no step removes or alters a log entry, and the log
\* displays (the sidebar's "Execution Log" and the history tab's "Last 10 log
\* entries") show exactly the last min(10, n) of the n entries, newest first
C11_LogDisplayedNewestFirst ==
    /\ [][IsPrefix(execution_log, execution_log')]_vars
    /\ [](history_log = LastEntries(execution_log))
    /\ [](sidebar_log = LastEntries(execution_log))

\* a connection was appended to the canvas state
ConnectionAppended ==
    Len(canvasState'.connections) > Len(canvasState.connections)

\* the last connection of the canvas state runs from node a to node b
LastConnects(cs, a, b) ==
    /\ cs.connections # <<>>
    /\ cs.connections[Len(cs.connections)].from = a
    /\ cs.connections[Len(cs.connections)].to = b

\* C12: 'c' / 'C' toggles connection mode; a connection is appended only by a
\* click, in connection mode with a start node pending, on another node; it
\* runs from the pending start to the clicked node and leaves connection mode
\* off with no start pending; a click outside connection mode or on the
\* pending start appends nothing; a double-click in connection mode adds no
\* node
C12_ConnectionProtocol ==
    /\ [][\A key \in Keys : KeyDown(key) =>
              connectionMode' = IF key \in {"c", "C"} THEN ~connectionMode
                                                    ELSE connectionMode]_vars
    /\ [][ConnectionAppended =>
              /\ connectionMode
              /\ connectionStart # NoNode
              /\ \E group \in groups :
                     /\ MouseDown(group)
                     /\ group.nodeId # connectionStart
                     /\ LastConnects(canvasState', connectionStart, group.nodeId)
              /\ Len(canvasState'.connections) = Len(canvasState.connections) + 1
              /\ IsPrefix(canvasState.connections, canvasState'.connections)
              /\ ~connectionMode'
              /\ connectionStart' = NoNode]_vars
    /\ [][\A group \in groups :
              (MouseDown(group) /\ connectionMode
                  /\ connectionStart \notin {NoNode, group.nodeId})
              => ConnectionAppended]_vars
    /\ [][\A group \in groups :
              (MouseDown(group)
                  /\ (~connectionMode \/ connectionStart = group.nodeId))
              => canvasState'.connections = canvasState.connections]_vars
    /\ [][(connectionMode /\ \E type \in TypedTypes, pt \in Points :
                                 DblClick(type, pt[1], pt[2]))
              => (canvasState'.nodes = canvasState.nodes /\ groups' = groups)]_vars

\* a connection between two drawn nodes was made; connection mode is off
\* again and no start node is pending
C12_Witness ==
    /\ ~connectionMode
    /\ connectionStart = NoNode
    /\ \E g, h \in groups :
           g # h /\ LastConnects(canvasState, g.nodeId, h.nodeId)

\* the Connection the claim describes: fresh id, first node to last node,
\* default ports
DemoConnection(nodes, drawn) ==
    [id |-> FreshId(drawn),
     from_node |-> nodes[1].id,
     to_node |-> nodes[Len(nodes)].id,
     from_port |-> "output", to_port |-> "input"]

\* C13 as claimed: with fewer than two nodes "Add Demo Connection" only warns
\* and leaves nodes, connections and log unchanged; with two or more it
\* appends one connection (fresh id, first node -> last node, "output" ->
\* "input") and one log entry
C13_DemoConnectionAdded ==
    [][AddDemoConnection =>
          IF Len(Flow.nodes) >= 2
          THEN /\ agent_flow' = agent_flow
               /\ heap'[agent_flow].nodes = Flow.nodes
               /\ heap'[agent_flow].connections =
                      Append(Flow.connections, DemoConnection(Flow.nodes, uuids))
               /\ Len(execution_log') = Len(execution_log) + 1
               /\ IsPrefix(execution_log, execution_log')
          ELSE /\ feedback' = "Add at least 2 nodes first."
               /\ agent_flow' = agent_flow
               /\ heap' = heap
               /\ execution_log' = execution_log]_vars

\* the frame's script runs on html that has changed: canvasState starts as
\* the session's canvas_data and renderExistingState() runs
Rerendered == CanvasFrame /\ canvas_data # frame_src

====
